---- MODULE Spec2Model ----
(***************************************************************************)
(* Model of the macaron csrf middleware (csrf.go): the request handler     *)
(* built by Generate, the per-route guard Validate and the capability      *)
(* object csrf they share.  One request is served at a time: ServeGenerate *)
(* runs the Generate handler on an incoming request, ServeValidate runs    *)
(* Validate on a guarded route, Login changes the identity kept in the     *)
(* session store between requests.                                         *)
(***************************************************************************)
EXTENDS Integers, Sequences, FiniteSets, TLC

VARIABLES
    opts,        \* the *Options value captured by the Generate closure
    sess,        \* the session store: key -> stored value
    req,         \* the request being served
    x,           \* the csrf capability mapped for the request
    mapped,      \* TRUE once ctx.MapTo(x, (*CSRF)(nil)) ran for the request
    resp,        \* the response writer of the request
    errorCalls,  \* number of calls of x.ErrorFunc during the request
    pc,          \* position in the handler chain of the request
    issued,      \* the token a client last obtained from a minting GET
    config,      \* the Options as the application filled them in
    resp0        \* the response writer as the Generate handler received it

vars == <<opts, sess, req, x, mapped, resp, errorCalls, pc, issued, config, resp0>>

(***************************************************************************)
(* Bounds                                                                  *)
(***************************************************************************)
\* int64 identities range over 1..MaxUid, string identities over their
\* decimal forms and the empty string
MaxUid == 1

(***************************************************************************)
(* Program constants                                                       *)
(***************************************************************************)
DefaultHeader == "X-CSRFToken"
DefaultForm == "_csrf"
DefaultCookie == "_csrf"
StatusBadRequest == 400
StatusCustom == 422
StatusOK == 200
ActionID == "POST"

CustomHeader == "X-SEESurfToken"
CustomForm == "_seesurf"
CustomCookie == "seesurf"
SessionKey == "userID"
TestSecret == "token123"

HeaderNames == {DefaultHeader, CustomHeader}
FormNames == {DefaultForm, CustomForm}
CookieNames == {DefaultCookie, CustomCookie}

(***************************************************************************)
(* strconv.FormatInt(n, 10)                                                *)
(***************************************************************************)
DigitChars == <<"0", "1", "2", "3", "4", "5", "6", "7", "8", "9">>

RECURSIVE FormatUint(_)
FormatUint(n) ==
    IF n < 10 THEN DigitChars[n + 1]
    ELSE FormatUint(n \div 10) \o DigitChars[(n % 10) + 1]

FormatInt(n) == IF n < 0 THEN "-" \o FormatUint(0 - n) ELSE FormatUint(n)

(***************************************************************************)
(* Token codec (xsrf.go): GenerateToken and ValidToken.                    *)
(* A keyed hash of the identity and the action tag under the secret,       *)
(* rendered as a non-empty string; validation recomputes and compares.     *)
(***************************************************************************)
GenerateToken(key, userID, actionID) ==
    "mac(" \o key \o ";" \o userID \o ";" \o actionID \o ")"

ValidToken(token, key, userID, actionID) ==
    token = GenerateToken(key, userID, actionID)

(***************************************************************************)
(* Session values: what sess.Get returns, tagged with its dynamic type.    *)
(***************************************************************************)
NilValue == [type |-> "nil", str |-> "", num |-> 0]
StringValue(s) == [type |-> "string", str |-> s, num |-> 0]
Int64Value(n) == [type |-> "int64", str |-> "", num |-> n]
IntValue(n) == [type |-> "int", str |-> "", num |-> n]

StringIDs == {""} \cup {FormatInt(n) : n \in 1..MaxUid}
SessionValues ==
    {NilValue} \cup {StringValue(s) : s \in StringIDs}
               \cup {Int64Value(n) : n \in 1..MaxUid}
               \cup {IntValue(1)}

NoToken == [Token |-> "", uid |-> NilValue]

\* values a client may put in a cookie, a header or a form field: the token
\* it last obtained (if any) and a value no derivation produces
ClientTokens(known) ==
    (IF known.Token = "" THEN {} ELSE {known.Token}) \cup {"invalid"}

(***************************************************************************)
(* Requests (net/http.Request as the handlers read it)                     *)
(***************************************************************************)
Methods == {"GET", "POST"}
Origins == {"", "https://www.example.com"}
\* Host "a.io:80" as its characters
TestHost == <<"a", ".", "i", "o", ":", "8", "0">>
Hosts == {TestHost}

\* the names under which a client sends its cookie, header and form field
NameSchemes ==
    { [header |-> DefaultHeader, form |-> DefaultForm, cookie |-> DefaultCookie],
      [header |-> CustomHeader, form |-> CustomForm, cookie |-> CustomCookie] }

ClientCookies(n, known) ==
    {<<>>} \cup {<<[Name |-> n, Value |-> v]>> : v \in ClientTokens(known) \cup {""}}

MakeRequest(m, o, h, sch, ck, hv, fv) ==
    [ Method  |-> m,
      Host    |-> h,
      Header  |-> [n \in HeaderNames \cup {"Origin"} |->
                     IF n = "Origin" THEN o
                     ELSE IF n = sch.header THEN hv ELSE ""],
      Form    |-> [n \in FormNames |-> IF n = sch.form THEN fv ELSE ""],
      Cookies |-> ck ]

\* a GET carries no token to validate; a POST may carry one in either place
Requests(known) ==
    UNION { { MakeRequest("GET", o, h, sch, ck, "", "") :
                o \in Origins, h \in Hosts,
                ck \in ClientCookies(sch.cookie, known) }
            \cup
            { MakeRequest("POST", o, h, sch, ck, hv, fv) :
                o \in Origins, h \in Hosts,
                ck \in {<<>>, <<[Name |-> sch.cookie, Value |-> "invalid"]>>},
                hv \in ClientTokens(known) \cup {""},
                fv \in ClientTokens(known) \cup {""} }
          : sch \in NameSchemes }

NoRequest == MakeRequest("", "", <<>>, CHOOSE sch \in NameSchemes : TRUE, <<>>, "", "")

\* r.Header.Get(name): "" when the header is absent
HeaderGet(r, name) == IF name \in DOMAIN r.Header THEN r.Header[name] ELSE ""

\* r.FormValue(name): "" when the field is absent
FormValue(r, name) == IF name \in DOMAIN r.Form THEN r.Form[name] ELSE ""

\* r.Cookie(name): the first cookie of that name, or ErrNoCookie
RECURSIVE FirstCookie(_, _)
FirstCookie(cs, name) ==
    IF cs = <<>> THEN [err |-> TRUE, Value |-> ""]
    ELSE IF Head(cs).Name = name THEN [err |-> FALSE, Value |-> Head(cs).Value]
    ELSE FirstCookie(Tail(cs), name)

ReqCookie(r, name) == FirstCookie(r.Cookies, name)

(***************************************************************************)
(* Responses (http.ResponseWriter)                                         *)
(***************************************************************************)
\* status 0: nothing written yet
NewResponse ==
    [ status    |-> 0,
      body      |-> "",
      Header    |-> [n \in HeaderNames |-> <<>>],
      SetCookie |-> <<>> ]

\* http.Error(w, msg, code): the first status written wins, the body grows
HttpError(w, msg, code) ==
    [w EXCEPT !.status = IF w.status = 0 THEN code ELSE w.status,
              !.body = w.body \o msg \o "\n"]

\* faulty variant: w.Header().Set(name, value), which replaces the values
HeaderAdd_Set(w, name, value) ==
    [w EXCEPT !.Header = [n \in DOMAIN w.Header \cup {name} |->
        IF n = name THEN <<value>> ELSE w.Header[n]]]

\* w.Header().Add(name, value)
HeaderAdd(w, name, value) ==
    [w EXCEPT !.Header = [n \in DOMAIN w.Header \cup {name} |->
        IF n = name
        THEN (IF n \in DOMAIN w.Header THEN w.Header[n] ELSE <<>>) \o <<value>>
        ELSE w.Header[n]]]

\* w.Written(): a status has been sent
Written(w) == w.status > 0

\* a handler's returned string is written as the body, with status 200 when
\* no status was sent before
WriteString(w, str) ==
    [w EXCEPT !.status = IF w.status = 0 THEN StatusOK ELSE w.status,
              !.body = w.body \o str]

\* the response writers the Generate handler may receive on a GET: a fresh
\* one, or one on which an earlier handler already added a header value
EarlierResponses ==
    {NewResponse} \cup {HeaderAdd(NewResponse, n, "earlier") : n \in HeaderNames}

\* http.SetCookie(w, cookie)
SetCookie(w, cookie) == [w EXCEPT !.SetCookie = Append(w.SetCookie, cookie)]

(***************************************************************************)
(* Cookie domain: strings.Split(host, ":")[0] matched against domainReg    *)
(***************************************************************************)
AlnumChars ==
    {"a", "b", "c", "d", "e", "f", "g", "h", "i", "j", "k", "l", "m",
     "n", "o", "p", "q", "r", "s", "t", "u", "v", "w", "x", "y", "z",
     "0", "1", "2", "3", "4", "5", "6", "7", "8", "9"}

\* strings.Split(s, ":")[0]: the characters before the first colon
RECURSIVE BeforeColon(_)
BeforeColon(s) ==
    IF s = <<>> \/ Head(s) = ":" THEN <<>>
    ELSE <<Head(s)>> \o BeforeColon(Tail(s))

\* one label: [a-z\d]+ followed by [a-z\d]* or by [a-z\d\-]*[a-z\d]
IsLabel(l) ==
    /\ l # <<>>
    /\ l[1] \in AlnumChars
    /\ l[Len(l)] \in AlnumChars
    /\ \A i \in 1..Len(l) : l[i] \in AlnumChars \cup {"-"}

\* labels separated by dots
RECURSIVE IsLabels(_)
IsLabels(s) ==
    \/ IsLabel(s)
    \/ \E i \in 1..Len(s) :
          /\ s[i] = "."
          /\ IsLabel(SubSeq(s, 1, i - 1))
          /\ IsLabels(SubSeq(s, i + 1, Len(s)))

\* \.?label(\.label)*
DomainBody(s) ==
    \/ IsLabels(s)
    \/ s # <<>> /\ Head(s) = "." /\ IsLabels(Tail(s))

\* regexp.Match(domainReg, s): an unanchored search for
\*   '/'  ^  body  $  '/'
\* where ^ and $ assert the start and the end of the text
DomainRegMatch(s) ==
    \E i \in 1..Len(s), j \in 1..Len(s) :
        /\ i < j
        /\ s[i] = "/"
        /\ i = 0
        /\ DomainBody(SubSeq(s, i + 1, j - 1))
        /\ j - 1 = Len(s)
        /\ s[j] = "/"

CookieDomain(host) ==
    LET domain == BeforeColon(host)
    IN  IF DomainRegMatch(domain) THEN domain ELSE <<>>

(***************************************************************************)
(* The capability object csrf and its methods                              *)
(***************************************************************************)
ZeroCSRF ==
    [ Header |-> "", Form |-> "", Cookie |-> "", Token |-> "", ID |-> "",
      Secret |-> "", ErrorFunc |-> "nil" ]

GetHeaderName(c) == c.Header
GetFormName(c) == c.Form
GetCookieName(c) == c.Cookie
GetToken(c) == c.Token

\* faulty variant: the identity is left out of the validation
csrfValidToken_NoID(c, t) == ValidToken(t, c.Secret, "", ActionID)

\* faulty variant: validates under another action tag than issuance uses
csrfValidToken_WrongTag(c, t) == ValidToken(t, c.Secret, c.ID, "GET")

csrfValidToken(c, t) == ValidToken(t, c.Secret, c.ID, ActionID)

\* faulty variant: the default callback replies like a missing token does
RunErrorFunc_DefaultBadRequest(f, w) ==
    CASE f = "default" -> HttpError(w, "Bad Request", StatusBadRequest)
      [] f = "custom"  -> HttpError(w, "custom error", StatusCustom)
      [] f = "silent"  -> w

\* the functions an ErrorFunc field may hold: the closure Generate installs
\* by default, the callback of Test_ValidateCustomError and a callback that
\* leaves the response alone
RunErrorFunc(f, w) ==
    CASE f = "default" -> HttpError(w, "Invalid csrf token.", StatusBadRequest)
      [] f = "custom"  -> HttpError(w, "custom error", StatusCustom)
      [] f = "silent"  -> w

csrfError(c, w) == RunErrorFunc(c.ErrorFunc, w)

(***************************************************************************)
(* Generate: the handler it returns, run on one request                    *)
(***************************************************************************)
\* Secure is read only when SetCookie is set
OptionsSet ==
    { o \in [ Secret     : {TestSecret},
              Header     : {"", CustomHeader},
              Form       : {"", CustomForm},
              Cookie     : {"", CustomCookie},
              SessionKey : {SessionKey},
              SetHeader  : BOOLEAN,
              SetCookie  : BOOLEAN,
              Secure     : BOOLEAN,
              ErrorFunc  : {"nil", "custom", "silent"} ] :
        o.Secure => o.SetCookie }

\* faulty variant: the header name is set to the default unconditionally
ApplyDefaults_OverwriteHeader(o) ==
    [o EXCEPT !.Header = DefaultHeader,
              !.Form = IF o.Form = "" THEN DefaultForm ELSE o.Form,
              !.Cookie = IF o.Cookie = "" THEN DefaultCookie ELSE o.Cookie,
              !.ErrorFunc = IF o.ErrorFunc = "nil" THEN "default" ELSE o.ErrorFunc]

\* csrf.go:123-136, the defaults written into *opts
ApplyDefaults(o) ==
    [o EXCEPT !.Header = IF o.Header = "" THEN DefaultHeader ELSE o.Header,
              !.Form = IF o.Form = "" THEN DefaultForm ELSE o.Form,
              !.Cookie = IF o.Cookie = "" THEN DefaultCookie ELSE o.Cookie,
              !.ErrorFunc = IF o.ErrorFunc = "nil" THEN "default" ELSE o.ErrorFunc]

\* csrf.go:138-144
NewCSRF(o) ==
    [ZeroCSRF EXCEPT !.Secret = o.Secret, !.Header = o.Header, !.Form = o.Form,
                     !.Cookie = o.Cookie, !.ErrorFunc = o.ErrorFunc]

\* faulty variant: the int64 case of the type switch is missing
HasIdentity_StringOnly(uid) == uid.type = "string"

\* csrf.go:148-158, the type switch: TRUE when an ID is assigned
HasIdentity(uid) == uid.type \in {"string", "int64"}

\* faulty variant: an int64 identity keeps a mark of its type
IdentityOf_TypeTagged(uid) ==
    CASE uid.type = "string" -> uid.str
      [] uid.type = "int64"  -> "i" \o FormatInt(uid.num)

\* csrf.go:153 and 155, the ID the type switch assigns
IdentityOf(uid) ==
    CASE uid.type = "string" -> uid.str
      [] uid.type = "int64"  -> FormatInt(uid.num)

\* faulty variant: the Origin header is not looked at
IssuesToken_IgnoreOrigin(r) == r.Method = "GET"

\* csrf.go:160, the negation of the early return
IssuesToken(r) == r.Method = "GET" /\ HeaderGet(r, "Origin") = ""

\* faulty variant: a cookie with an empty value counts as an existing token
HasExistingToken_AnyValue(r, name) == ~ReqCookie(r, name).err

\* csrf.go:165
HasExistingToken(r, name) ==
    LET ex == ReqCookie(r, name)
    IN  ~ex.err /\ ex.Value # ""

\* faulty variant: the Secure option is not copied into the cookie
NewCookie_NeverSecure(o, r, token) ==
    [ Name     |-> o.Cookie,
      Value    |-> token,
      Path     |-> "/",
      Domain   |-> CookieDomain(r.Host),
      ExpireDays |-> 1,
      MaxAge   |-> 0,
      Secure   |-> FALSE,
      HttpOnly |-> FALSE ]

\* csrf.go:177-189
NewCookie(o, r, token) ==
    [ Name     |-> o.Cookie,
      Value    |-> token,
      Path     |-> "/",
      Domain   |-> CookieDomain(r.Host),
      ExpireDays |-> 1,
      MaxAge   |-> 0,
      Secure   |-> o.Secure,
      HttpOnly |-> FALSE ]

\* faulty variant: the request's cookie is never reused
IssueToken_AlwaysDerive(o, r, w, c) ==
    LET c2 == [c EXCEPT !.Token = GenerateToken(c.Secret, c.ID, ActionID)]
        w2 == IF o.SetCookie
              THEN SetCookie(w, NewCookie(o, r, c2.Token)) ELSE w
        w3 == IF o.SetHeader THEN HeaderAdd(w2, o.Header, c2.Token) ELSE w2
    IN  [x |-> c2, resp |-> w3, minted |-> TRUE]

\* faulty variant: the token is derived under another action tag
IssueToken_WrongTag(o, r, w, c) ==
    LET reuse == HasExistingToken(r, o.Cookie)
        c2 == [c EXCEPT !.Token = IF reuse THEN ReqCookie(r, o.Cookie).Value
                                  ELSE GenerateToken(c.Secret, c.ID, "GET")]
        w2 == IF ~reuse /\ o.SetCookie
              THEN SetCookie(w, NewCookie(o, r, c2.Token)) ELSE w
        w3 == IF o.SetHeader THEN HeaderAdd(w2, o.Header, c2.Token) ELSE w2
    IN  [x |-> c2, resp |-> w3, minted |-> ~reuse]

\* faulty variant: request data enters the derivation
IssueToken_PerRequest(o, r, w, c) ==
    LET reuse == HasExistingToken(r, o.Cookie)
        salt == IF r.Cookies = <<>> THEN "" ELSE "+"
        c2 == [c EXCEPT !.Token = IF reuse THEN ReqCookie(r, o.Cookie).Value
                                  ELSE GenerateToken(c.Secret, c.ID \o salt, ActionID)]
        w2 == IF ~reuse /\ o.SetCookie
              THEN SetCookie(w, NewCookie(o, r, c2.Token)) ELSE w
        w3 == IF o.SetHeader THEN HeaderAdd(w2, o.Header, c2.Token) ELSE w2
    IN  [x |-> c2, resp |-> w3, minted |-> ~reuse]

\* faulty variant: the cookie is set again when its value is reused
IssueToken_RefreshCookie(o, r, w, c) ==
    LET reuse == HasExistingToken(r, o.Cookie)
        c2 == [c EXCEPT !.Token = IF reuse THEN ReqCookie(r, o.Cookie).Value
                                  ELSE GenerateToken(c.Secret, c.ID, ActionID)]
        w2 == IF o.SetCookie
              THEN SetCookie(w, NewCookie(o, r, c2.Token)) ELSE w
        w3 == IF o.SetHeader THEN HeaderAdd(w2, o.Header, c2.Token) ELSE w2
    IN  [x |-> c2, resp |-> w3, minted |-> ~reuse]

\* csrf.go:164-196, reached with the identity resolved on a GET without Origin
IssueToken(o, r, w, c) ==
    LET reuse == HasExistingToken(r, o.Cookie)
        c2 == [c EXCEPT !.Token = IF reuse THEN ReqCookie(r, o.Cookie).Value
                                  ELSE GenerateToken(c.Secret, c.ID, ActionID)]
        w2 == IF ~reuse /\ o.SetCookie
              THEN SetCookie(w, NewCookie(o, r, c2.Token)) ELSE w
        w3 == IF o.SetHeader THEN HeaderAdd(w2, o.Header, c2.Token) ELSE w2
    IN  [x |-> c2, resp |-> w3, minted |-> ~reuse]

\* faulty variant: the identity is resolved only after the method and Origin
\* check, so a POST gets a capability without ID
GenerateHandler_IDAfterMethodCheck(o, store, r, w) ==
    LET o2 == ApplyDefaults(o)
        c == NewCSRF(o2)
        uid == store[o2.SessionKey]
    IN  IF ~HasIdentity(uid) \/ ~IssuesToken(r)
        THEN [opts |-> o2, x |-> c, resp |-> w, minted |-> FALSE]
        ELSE [opts |-> o2]
             @@ IssueToken(o2, r, w, [c EXCEPT !.ID = IdentityOf(uid)])

\* faulty variant: a missing or unsupported identity does not end the handler
GenerateHandler_NoIdentityCheck(o, store, r, w) ==
    LET o2 == ApplyDefaults(o)
        c == NewCSRF(o2)
        uid == store[o2.SessionKey]
        c1 == IF HasIdentity(uid) THEN [c EXCEPT !.ID = IdentityOf(uid)] ELSE c
    IN  IF ~IssuesToken(r)
        THEN [opts |-> o2, x |-> c1, resp |-> w, minted |-> FALSE]
        ELSE [opts |-> o2] @@ IssueToken(o2, r, w, c1)

\* faulty variant: the capability is filled only once an identity is resolved
GenerateHandler_MapAfterIdentity(o, store, r, w) ==
    LET o2 == ApplyDefaults(o)
        c == NewCSRF(o2)
        uid == store[o2.SessionKey]
    IN  IF ~HasIdentity(uid)
        THEN [opts |-> o2, x |-> ZeroCSRF, resp |-> w, minted |-> FALSE]
        ELSE LET c1 == [c EXCEPT !.ID = IdentityOf(uid)]
             IN  IF ~IssuesToken(r)
                 THEN [opts |-> o2, x |-> c1, resp |-> w, minted |-> FALSE]
                 ELSE [opts |-> o2] @@ IssueToken(o2, r, w, c1)

\* csrf.go:122-197, the whole handler: the options as it leaves them, the
\* capability it mapped and the response
GenerateHandler(o, store, r, w) ==
    LET o2 == ApplyDefaults(o)
        c == NewCSRF(o2)
        uid == store[o2.SessionKey]
    IN  IF ~HasIdentity(uid)
        THEN [opts |-> o2, x |-> c, resp |-> w, minted |-> FALSE]
        ELSE LET c1 == [c EXCEPT !.ID = IdentityOf(uid)]
             IN  IF ~IssuesToken(r)
                 THEN [opts |-> o2, x |-> c1, resp |-> w, minted |-> FALSE]
                 ELSE [opts |-> o2] @@ IssueToken(o2, r, w, c1)

(***************************************************************************)
(* Validate                                                                *)
(***************************************************************************)
\* faulty variant: a rejected token gets the fixed reply, not the callback
CheckToken_FixedReply(w, c, token) ==
    IF ~csrfValidToken(c, token)
    THEN [resp |-> HttpError(w, "Bad Request", StatusBadRequest), errors |-> 0]
    ELSE [resp |-> w, errors |-> 0]

\* csrf.go:207-210 and 213-216: the check of a token that was found
CheckToken(w, c, token) ==
    IF ~csrfValidToken(c, token)
    THEN [resp |-> csrfError(c, w), errors |-> 1]
    ELSE [resp |-> w, errors |-> 0]

\* faulty variant: a missing token is reported through the error callback
Validate_ErrorOnMissing(r, w, c) ==
    IF HeaderGet(r, GetHeaderName(c)) # ""
    THEN CheckToken(w, c, HeaderGet(r, GetHeaderName(c)))
    ELSE IF FormValue(r, GetFormName(c)) # ""
    THEN CheckToken(w, c, FormValue(r, GetFormName(c)))
    ELSE [resp |-> csrfError(c, w), errors |-> 1]

\* faulty variant: the form field is consulted before the header
Validate_FormFirst(r, w, c) ==
    IF FormValue(r, GetFormName(c)) # ""
    THEN CheckToken(w, c, FormValue(r, GetFormName(c)))
    ELSE IF HeaderGet(r, GetHeaderName(c)) # ""
    THEN CheckToken(w, c, HeaderGet(r, GetHeaderName(c)))
    ELSE [resp |-> HttpError(w, "Bad Request", StatusBadRequest), errors |-> 0]

\* faulty variant: the returns after the two token checks are missing
Validate_FallThrough(r, w, c) ==
    LET a == IF HeaderGet(r, GetHeaderName(c)) # ""
             THEN CheckToken(w, c, HeaderGet(r, GetHeaderName(c)))
             ELSE [resp |-> w, errors |-> 0]
        b == IF FormValue(r, GetFormName(c)) # ""
             THEN CheckToken(a.resp, c, FormValue(r, GetFormName(c)))
             ELSE [resp |-> a.resp, errors |-> 0]
    IN  [resp |-> HttpError(b.resp, "Bad Request", StatusBadRequest),
         errors |-> a.errors + b.errors]

\* csrf.go:205-221
Validate(r, w, c) ==
    IF HeaderGet(r, GetHeaderName(c)) # ""
    THEN CheckToken(w, c, HeaderGet(r, GetHeaderName(c)))
    ELSE IF FormValue(r, GetFormName(c)) # ""
    THEN CheckToken(w, c, FormValue(r, GetFormName(c)))
    ELSE [resp |-> HttpError(w, "Bad Request", StatusBadRequest), errors |-> 0]

(***************************************************************************)
(* State machine                                                           *)
(***************************************************************************)
Init ==
    /\ opts \in OptionsSet
    /\ sess = [k \in {SessionKey} |-> NilValue]
    /\ req = NoRequest
    /\ x = ZeroCSRF
    /\ mapped = FALSE
    /\ resp = NewResponse
    /\ errorCalls = 0
    /\ pc = "idle"
    /\ issued = NoToken
    /\ config = opts
    /\ resp0 = NewResponse

\* between two requests a handler of the application stores a value under
\* the session key (the /login route of the tests) or removes it
Login(v) ==
    /\ pc = "idle"
    /\ sess' = [sess EXCEPT ![SessionKey] = v]
    /\ UNCHANGED <<opts, req, x, mapped, resp, errorCalls, pc, issued, config, resp0>>

\* a request arrives and the Generate handler runs on it; a POST goes on to
\* the Validate guard of its route, a GET to its handler, which hands
\* x.GetToken() to the client
ServeGenerate(r, w) ==
    /\ pc = "idle"
    /\ resp0' = w
    /\ LET g == GenerateHandler(opts, sess, r, w)
       IN  /\ opts' = g.opts
           /\ x' = g.x
           /\ resp' = g.resp
           /\ issued' = IF g.minted
                         THEN [Token |-> GetToken(g.x), uid |-> sess[SessionKey]]
                         ELSE issued
    /\ req' = r
    /\ mapped' = TRUE
    /\ errorCalls' = 0
    /\ pc' = IF r.Method = "POST" THEN "validate" ELSE "generated"
    /\ UNCHANGED <<sess, config>>

\* the Validate guard of the POST route runs with the mapped capability
ServeValidate ==
    /\ pc = "validate"
    /\ mapped
    /\ LET v == Validate(req, resp, x)
       IN  /\ resp' = v.resp
           /\ errorCalls' = errorCalls + v.errors
    /\ pc' = "validated"
    /\ UNCHANGED <<opts, sess, req, x, mapped, issued, config, resp0>>

\* the framework goes on to the handler of the POST route, which returns
\* "OK", unless the response was written
RunHandler ==
    /\ pc = "validated"
    /\ ~Written(resp)
    /\ resp' = WriteString(resp, "OK")
    /\ pc' = "handled"
    /\ UNCHANGED <<opts, sess, req, x, mapped, errorCalls, issued, config, resp0>>

\* the response is sent; the request, its capability and its response writer
\* go away
Finish ==
    /\ \/ pc \in {"generated", "handled"}
       \/ pc = "validated" /\ Written(resp)
    /\ req' = NoRequest
    /\ x' = ZeroCSRF
    /\ mapped' = FALSE
    /\ resp' = NewResponse
    /\ errorCalls' = 0
    /\ resp0' = NewResponse
    /\ pc' = "idle"
    /\ UNCHANGED <<opts, sess, issued, config>>

Next ==
    \/ pc = "idle" /\ \E v \in SessionValues : Login(v)
    \/ Finish
    \/ pc = "idle" /\ \E r \in Requests(issued) :
          \E w \in (IF r.Method = "GET" THEN EarlierResponses ELSE {NewResponse}) :
             ServeGenerate(r, w)
    \/ ServeValidate
    \/ RunHandler

Spec == Init /\ [][Next]_vars

TypeOK ==
    /\ pc \in {"idle", "generated", "validate", "validated", "handled"}
    /\ sess[SessionKey] \in SessionValues
    /\ errorCalls \in 0..1
    /\ mapped \in BOOLEAN

(***************************************************************************)
(* Vocabulary of the properties                                            *)
(***************************************************************************)
SessionUid == sess[SessionKey]

\* the session holds a string or an int64 under the session key
SupportedIdentity == SessionUid.type \in {"string", "int64"}

\* the identity string of the session ("" when it holds none)
ExpectedID ==
    IF SessionUid.type = "string" THEN SessionUid.str
    ELSE IF SessionUid.type = "int64" THEN FormatInt(SessionUid.num)
    ELSE ""

\* the token derived from the configured secret and the session's identity
ExpectedToken == GenerateToken(opts.Secret, ExpectedID, "POST")

\* Generate has run on the current request and nothing ran after it
AfterGenerate == pc \in {"generated", "validate"}

\* Validate has run on the current request
AfterValidate == pc = "validated"

SafeRequest == req.Method = "GET" /\ req.Header["Origin"] = ""

\* what the request carries under the configured names
SentHeader == req.Header[opts.Header]
SentForm == req.Form[opts.Form]
CsrfCookies == {i \in DOMAIN req.Cookies : req.Cookies[i].Name = opts.Cookie}
HasCsrfCookie == \E i \in CsrfCookies : req.Cookies[i].Value # ""
CsrfCookieValue == req.Cookies[CHOOSE i \in CsrfCookies : TRUE].Value

\* the token Validate finds: the header's, or the form field's when the
\* header is empty
FoundToken == IF SentHeader # "" THEN SentHeader ELSE SentForm

NoReply == resp.status = 0 /\ resp.body = ""
FixedBadRequest == resp.status = 400 /\ resp.body = "Bad Request\n"
NothingIssued ==
    /\ x.Token = ""
    /\ resp.SetCookie = <<>>
    /\ resp.Header = resp0.Header

(***************************************************************************)
(* Properties                                                              *)
(***************************************************************************)
\* C1: a token a client obtained from a GET without Origin and without csrf
\* cookie is accepted by Validate on a later POST of the session with the
\* same identity, sent in the configured header or (the header being empty)
\* in the configured form field: no reply is written, no callback runs.
C1_RoundTrip ==
    ( /\ AfterValidate
      /\ req.Method = "POST"
      /\ issued.Token # ""
      /\ issued.uid = SessionUid
      /\ \/ SentHeader = issued.Token
         \/ SentHeader = "" /\ SentForm = issued.Token )
    => (NoReply /\ errorCalls = 0)

C1_Witness ==
    /\ AfterValidate
    /\ issued.Token # ""
    /\ issued.uid = SessionUid
    /\ SentHeader = ""
    /\ SentForm = issued.Token
    /\ NoReply

\* C2: for every request, x.ValidToken(t) is true exactly when t is the token
\* derived from the configured secret, the identity of the request's session
\* and the tag used at issuance; every other candidate is rejected.
C2_Candidates ==
    {GenerateToken(k, s, a) : k \in {TestSecret, ""}, s \in StringIDs,
                              a \in {"POST", "GET"}}
    \cup {"invalid", ""}

C2_ValidTokenIff ==
    mapped => \A t \in C2_Candidates : csrfValidToken(x, t) <=> (t = ExpectedToken)

C2_Witness ==
    /\ pc = "validate"
    /\ SupportedIdentity
    /\ ExpectedID # ""
    /\ csrfValidToken(x, issued.Token)
    /\ ~csrfValidToken(x, "invalid")

\* C3: when Validate runs on a request with neither the configured header
\* nor the configured form field, the reply is the fixed 400 "Bad Request"
\* and the error callback is not called, whatever ErrorFunc is configured.
C3_MissingToken ==
    (AfterValidate /\ SentHeader = "" /\ SentForm = "")
    => (FixedBadRequest /\ errorCalls = 0)

C3_Witness ==
    /\ AfterValidate
    /\ SentHeader = ""
    /\ SentForm = ""
    /\ opts.ErrorFunc = "custom"
    /\ FixedBadRequest

\* C4: when Validate finds a non-empty token that ValidToken rejects, the
\* error callback is called exactly once and the reply is what the callback
\* writes; the fixed 400 "Bad Request" is not written.
C4_InvalidToken ==
    (AfterValidate /\ FoundToken # "" /\ ~csrfValidToken(x, FoundToken))
    => /\ errorCalls = 1
       /\ resp = RunErrorFunc(opts.ErrorFunc, NewResponse)
       /\ opts.ErrorFunc = "custom"
            => resp.status = 422 /\ resp.body = "custom error\n"
       /\ ~FixedBadRequest

C4_Witness ==
    /\ AfterValidate
    /\ SentHeader = ""
    /\ SentForm = "invalid"
    /\ errorCalls = 1
    /\ resp.status = 422

\* C5: with a non-empty configured header the outcome of Validate is decided
\* by the header value alone, whatever the form field holds: a valid header
\* passes, an invalid header calls the error callback.
C5_HeaderPrecedence ==
    (AfterValidate /\ SentHeader # "")
    => IF SentHeader = ExpectedToken
       THEN NoReply /\ errorCalls = 0
       ELSE errorCalls = 1 /\ resp = RunErrorFunc(opts.ErrorFunc, NewResponse)

C5_Witness ==
    /\ AfterValidate
    /\ SentHeader = "invalid"
    /\ SentForm = ExpectedToken
    /\ errorCalls = 1

\* C6: on a GET without Origin whose session holds a supported identity,
\* Generate publishes a non-empty current token.
C6_IssuanceOnSafe ==
    (AfterGenerate /\ SafeRequest /\ SupportedIdentity) => GetToken(x) # ""

C6_Witness ==
    /\ AfterGenerate
    /\ SafeRequest
    /\ SupportedIdentity
    /\ req.Cookies # <<>>
    /\ GetToken(x) # ""

\* C7: on a request that is not a GET or carries an Origin header, Generate
\* publishes no token, sets no cookie and adds no response header, whatever
\* SetCookie and SetHeader are and whatever cookie the request carries.
C7_NoIssuanceOnUnsafe ==
    (AfterGenerate /\ ~SafeRequest) => NothingIssued

C7_Witness ==
    /\ AfterGenerate
    /\ req.Method = "GET"
    /\ req.Header["Origin"] # ""
    /\ SupportedIdentity
    /\ opts.SetCookie
    /\ opts.SetHeader
    /\ ~HasCsrfCookie
    /\ NothingIssued

\* C8: on a GET without Origin with a supported identity, the current token
\* is the value of the request's csrf cookie when that cookie is present with
\* a non-empty value, and the derived token otherwise.
C8_TokenSource ==
    (AfterGenerate /\ SafeRequest /\ SupportedIdentity)
    => GetToken(x) = IF HasCsrfCookie THEN CsrfCookieValue ELSE ExpectedToken

C8_Witness ==
    /\ AfterGenerate
    /\ SafeRequest
    /\ SupportedIdentity
    /\ HasCsrfCookie
    /\ CsrfCookieValue = issued.Token
    /\ GetToken(x) = issued.Token

\* C9 as stated: whenever Generate publishes a non-empty token, ValidToken
\* accepts it on the same request.
C9_Original ==
    (AfterGenerate /\ GetToken(x) # "") => csrfValidToken(x, GetToken(x))

\* C9 amended: a token Generate publishes is accepted by ValidToken on the
\* same request exactly when it was newly derived or the reused cookie value
\* equals the derived token; the cookie value is reused unchecked.
C9_Amended ==
    (AfterGenerate /\ GetToken(x) # "")
    => ( csrfValidToken(x, GetToken(x))
         <=> (~HasCsrfCookie \/ CsrfCookieValue = ExpectedToken) )

C9_Witness ==
    /\ AfterGenerate
    /\ HasCsrfCookie
    /\ GetToken(x) = CsrfCookieValue
    /\ CsrfCookieValue # ExpectedToken
    /\ CsrfCookieValue = issued.Token
    /\ ~csrfValidToken(x, GetToken(x))

\* C10: when the session holds no value under the session key, or a value
\* that is neither a string nor an int64, Generate publishes no token, sets
\* no cookie, adds no header and writes no reply, for every method and every
\* SetCookie/SetHeader.
C10_NoIdentityNoOp ==
    (AfterGenerate /\ ~SupportedIdentity) => (NothingIssued /\ NoReply)

C10_Witness ==
    /\ AfterGenerate
    /\ SafeRequest
    /\ SessionUid.type = "int"
    /\ opts.SetCookie
    /\ opts.SetHeader
    /\ NothingIssued
    /\ NoReply

\* C11 as stated: a string or an integer of any integer type under the
\* session key is an identity, so a GET without Origin publishes a token.
C11_Original ==
    (AfterGenerate /\ SafeRequest /\ SessionUid.type \in {"string", "int64", "int"})
    => GetToken(x) # ""

\* C11 amended: exactly a string or an int64 under the session key is an
\* identity: a GET without Origin then publishes a token; every other value,
\* an integer of another type such as int included, is treated as no identity
\* and no token is published.
C11_Amended ==
    (AfterGenerate /\ SafeRequest)
    => (GetToken(x) # "" <=> SessionUid.type \in {"string", "int64"})

C11_Witness ==
    /\ AfterGenerate
    /\ SafeRequest
    /\ SessionUid.type = "int64"
    /\ ~HasCsrfCookie
    /\ GetToken(x) = GenerateToken(TestSecret, "1", "POST")

\* the names the configuration resolves to: the configured one when it is
\* not empty, the default otherwise
ResolvedHeader == IF config.Header = "" THEN "X-CSRFToken" ELSE config.Header
ResolvedForm == IF config.Form = "" THEN "_csrf" ELSE config.Form
ResolvedCookie == IF config.Cookie = "" THEN "_csrf" ELSE config.Cookie

\* a token was newly derived for the current request
NewlyMinted ==
    AfterGenerate /\ SafeRequest /\ SupportedIdentity /\ ~HasCsrfCookie

\* C12: when a token is newly minted and SetCookie is set, the response sets
\* exactly one cookie: named as configured ("_csrf" by default), its value
\* the current token, Path "/", MaxAge 0, HttpOnly false and Secure as
\* configured; when SetCookie is not set, no cookie is set.
C12_CookieTransport ==
    NewlyMinted
    => IF config.SetCookie
       THEN /\ Len(resp.SetCookie) = 1
            /\ resp.SetCookie[1].Name = ResolvedCookie
            /\ resp.SetCookie[1].Value = GetToken(x)
            /\ resp.SetCookie[1].Path = "/"
            /\ resp.SetCookie[1].MaxAge = 0
            /\ resp.SetCookie[1].HttpOnly = FALSE
            /\ resp.SetCookie[1].Secure = config.Secure
       ELSE resp.SetCookie = <<>>

C12_Witness ==
    /\ NewlyMinted
    /\ config.SetCookie
    /\ config.Secure
    /\ config.Cookie = ""
    /\ Len(resp.SetCookie) = 1
    /\ resp.SetCookie[1].Name = "_csrf"
    /\ resp.SetCookie[1].Secure

\* C13: when the csrf cookie is set, its Domain is the request Host without
\* the port if that hostname has the form of a domain name, and is empty
\* exactly when it has not.
C13_CookieDomain ==
    (AfterGenerate /\ resp.SetCookie # <<>>)
    => resp.SetCookie[1].Domain =
         IF DomainBody(BeforeColon(req.Host)) THEN BeforeColon(req.Host) ELSE <<>>

\* C14: on every token-issuing request (GET without Origin, supported
\* identity), minted or reused, SetHeader appends the current token to the
\* values the configured response header already has and changes nothing
\* else; without SetHeader the response headers are left as they were.
C14_HeaderTransport ==
    (AfterGenerate /\ SafeRequest /\ SupportedIdentity)
    => resp.Header =
         IF config.SetHeader
         THEN [resp0.Header EXCEPT ![ResolvedHeader] = @ \o <<GetToken(x)>>]
         ELSE resp0.Header

C14_Witness ==
    /\ AfterGenerate
    /\ SafeRequest
    /\ SupportedIdentity
    /\ HasCsrfCookie
    /\ config.SetHeader
    /\ resp0.Header[ResolvedHeader] = <<"earlier">>
    /\ resp.Header[ResolvedHeader] = <<"earlier", GetToken(x)>>

\* the token the request carries under the resolved names: the header's, or
\* the form field's when that header is empty
ResolvedToken ==
    IF req.Header[ResolvedHeader] # "" THEN req.Header[ResolvedHeader]
    ELSE req.Form[ResolvedForm]

\* C15: for every request the capability's header, form and cookie names are
\* the configured names when these are not empty and "X-CSRFToken", "_csrf"
\* and "_csrf" otherwise, and Validate looks for the token under exactly
\* these names: a token sent under another name is not found.
C15_NameResolution ==
    /\ mapped => /\ GetHeaderName(x) = ResolvedHeader
                 /\ GetFormName(x) = ResolvedForm
                 /\ GetCookieName(x) = ResolvedCookie
    /\ AfterValidate =>
         /\ FixedBadRequest <=> ResolvedToken = ""
         /\ ResolvedToken = ExpectedToken => (NoReply /\ errorCalls = 0)
         /\ ResolvedToken \notin {"", ExpectedToken} => errorCalls = 1

C15_Witness ==
    /\ AfterValidate
    /\ config.Header = CustomHeader
    /\ config.Form = ""
    /\ x.Header = CustomHeader
    /\ x.Form = "_csrf"
    /\ SupportedIdentity
    /\ req.Header[CustomHeader] = ExpectedToken
    /\ NoReply

\* C16 as stated: without a configured ErrorFunc a rejected token gets
\* status 400 with the body "Invalid csrf token.".
C16_Original ==
    ( /\ AfterValidate
      /\ config.ErrorFunc = "nil"
      /\ FoundToken # ""
      /\ ~csrfValidToken(x, FoundToken) )
    => (resp.status = 400 /\ resp.body = "Invalid csrf token.")

\* C16 amended: without a configured ErrorFunc a rejected token gets status
\* 400 with the body "Invalid csrf token.\n" (http.Error ends the message
\* with a newline), which differs from the body "Bad Request\n" of a missing
\* token.
C16_Amended ==
    ( /\ AfterValidate
      /\ config.ErrorFunc = "nil"
      /\ FoundToken # ""
      /\ ~csrfValidToken(x, FoundToken) )
    => /\ resp.status = 400
       /\ resp.body = "Invalid csrf token.\n"
       /\ ~FixedBadRequest

C16_Witness ==
    /\ AfterValidate
    /\ config.ErrorFunc = "nil"
    /\ FoundToken = "invalid"
    /\ resp.status = 400
    /\ resp.body = "Invalid csrf token.\n"

\* the three outcomes of a run of Validate, by what the run did
PassOutcome == errorCalls = 0 /\ resp = resp0
ErrorOutcome == errorCalls = 1 /\ resp = RunErrorFunc(opts.ErrorFunc, resp0)
RejectOutcome ==
    errorCalls = 0 /\ resp = HttpError(resp0, "Bad Request", 400)

\* C17: every run of Validate ends in exactly one of Pass (token found and
\* valid: nothing written, no callback), Error (token found and invalid: the
\* callback is called once and nothing else is written) and Reject (no
\* token: only the fixed 400 is written).
C17_ValidateOutcomes ==
    AfterValidate
    => /\ Cardinality({o \in {"pass", "error", "reject"} :
                          \/ o = "pass" /\ PassOutcome
                          \/ o = "error" /\ ErrorOutcome
                          \/ o = "reject" /\ RejectOutcome}) = 1
       /\ PassOutcome <=> (FoundToken # "" /\ FoundToken = ExpectedToken)
       /\ ErrorOutcome <=> (FoundToken # "" /\ FoundToken # ExpectedToken)
       /\ RejectOutcome <=> FoundToken = ""

C17_Witness ==
    /\ AfterValidate
    /\ SentHeader = ""
    /\ SentForm = "invalid"
    /\ opts.ErrorFunc = "silent"
    /\ ErrorOutcome
    /\ ~PassOutcome

\* C18: on a route guarded by Validate the downstream handler runs only
\* after Pass, never after Error or Reject, whatever the error callback is.
C18_HandlerOnlyAfterPass ==
    pc = "handled"
    => (errorCalls = 0 /\ FoundToken # "" /\ FoundToken = ExpectedToken)

\* the identity string of the session the client's token was issued to
IssuedID ==
    IF issued.uid.type = "string" THEN issued.uid.str
    ELSE FormatInt(issued.uid.num)

\* C19: a token issued to a session with identity A is never accepted by
\* Validate on a request whose session has an identity B different from A,
\* in any order of logins, GETs and POSTs: the request ends in Error.
C19_BoundToIdentity ==
    ( /\ AfterValidate
      /\ issued.Token # ""
      /\ FoundToken = issued.Token
      /\ SupportedIdentity
      /\ IssuedID # ExpectedID )
    => (ErrorOutcome /\ ~PassOutcome)

C19_Witness ==
    /\ AfterValidate
    /\ issued.Token # ""
    /\ SentHeader = issued.Token
    /\ SupportedIdentity
    /\ IssuedID = "1"
    /\ ExpectedID = ""
    /\ errorCalls = 1

\* C20: for a fixed secret and identity every minting GET yields the same
\* token; a run of Validate changes neither the options, the session, the
\* capability nor the client's token; and a token minted for the session's
\* identity is accepted by every run of Validate that finds it.
C20_DeterministicReusable ==
    [][ /\ ( /\ pc = "idle"
             /\ issued.Token # ""
             /\ issued.uid = SessionUid
             /\ NewlyMinted' )
           => GetToken(x') = issued.Token
        /\ pc = "validate" => UNCHANGED <<opts, sess, x, issued>>
        /\ ( /\ pc = "validate"
             /\ issued.Token # ""
             /\ issued.uid = SessionUid
             /\ FoundToken = issued.Token )
           => PassOutcome'
      ]_vars

C20_Witness ==
    /\ AfterValidate
    /\ issued.Token # ""
    /\ issued.uid = SessionUid
    /\ SentHeader = issued.Token
    /\ SentForm = "invalid"
    /\ PassOutcome

\* C21: handling a request never writes the shared Options value: defaults
\* are not applied per request, so no step of any request changes it.
C21_OptionsNeverModified == [][opts' = opts]_vars

\* C22: every request that went through Generate has a capability mapped,
\* whatever its identity, method and Origin; the capability carries the
\* resolved header, form and cookie names, the configured secret and an
\* error callback that is not nil, so Validate always finds one to run with.
C22_CapabilityAlways ==
    pc # "idle"
    => /\ mapped
       /\ x.Header = ResolvedHeader /\ x.Header # ""
       /\ x.Form = ResolvedForm /\ x.Form # ""
       /\ x.Cookie = ResolvedCookie /\ x.Cookie # ""
       /\ x.Secret = config.Secret
       /\ x.ErrorFunc = (IF config.ErrorFunc = "nil" THEN "default"
                         ELSE config.ErrorFunc)

C22_Witness ==
    /\ AfterValidate
    /\ req.Method = "POST"
    /\ req.Header["Origin"] # ""
    /\ SessionUid.type = "int"
    /\ mapped
    /\ config.ErrorFunc = "nil"
    /\ x.ErrorFunc = "default"
    /\ x.Token = ""

\* C23: a token Generate issued to any session, whatever supported identity
\* it had (the empty string included), is not accepted by Validate on a
\* request whose session has no identity or one of an unsupported type.
C23_NoIdentityNoPass ==
    ( /\ AfterValidate
      /\ ~SupportedIdentity
      /\ issued.Token # ""
      /\ FoundToken = issued.Token )
    => (errorCalls = 1 /\ ~PassOutcome)

\* C24: the int64 identity n gets the token of the string identity that is
\* the decimal form of n, and a token issued to either of the two is
\* accepted on a request of the other.
C24_IntegerNormalised ==
    /\ (NewlyMinted /\ SessionUid.type = "int64")
       => GetToken(x) = GenerateToken(config.Secret,
                                      FormatInt(SessionUid.num), "POST")
    /\ ( /\ AfterValidate
         /\ issued.Token # ""
         /\ FoundToken = issued.Token
         /\ SupportedIdentity
         /\ issued.uid.type # SessionUid.type
         /\ IssuedID = ExpectedID )
       => (PassOutcome /\ errorCalls = 0)

C24_Witness ==
    /\ AfterValidate
    /\ issued.Token # ""
    /\ FoundToken = issued.Token
    /\ issued.uid = Int64Value(1)
    /\ SessionUid = StringValue("1")
    /\ PassOutcome

\* C25: a token-issuing GET that carries a non-empty csrf cookie sets no
\* cookie, also when SetCookie is set; a cookie is set only on a request for
\* which the token was newly derived.
C25_NoCookieOnReuse ==
    /\ (AfterGenerate /\ SafeRequest /\ SupportedIdentity /\ HasCsrfCookie)
       => resp.SetCookie = <<>>
    /\ (pc # "idle" /\ resp.SetCookie # <<>>)
       => (SafeRequest /\ SupportedIdentity /\ ~HasCsrfCookie)

C25_Witness ==
    /\ AfterGenerate
    /\ SafeRequest
    /\ SupportedIdentity
    /\ HasCsrfCookie
    /\ config.SetCookie
    /\ config.SetHeader
    /\ issued.Token # ""
    /\ GetToken(x) = issued.Token
    /\ resp.SetCookie = <<>>

====
